---- MODULE Spec2Model ----
(***************************************************************************)
(* A model of the JAX/Flax MNIST notebooks: the data-loading adapter       *)
(* (numpy_collate, JAXRandomSampler, NumpyLoader), the training loops, the *)
(* evaluation passes, the data-parallel train step and the pure helpers.   *)
(*                                                                         *)
(* Six specifications share the variables:                                 *)
(*   Spec      the single-device training loop with its loaders;           *)
(*   SpecPmap  the multi-device notebook: replicated state, p_train_step,  *)
(*             eval_model on all devices and eval_model_single;            *)
(*   SpecPure  the pure functions, applied to inputs drawn from bounded    *)
(*             sets, one call in every behaviour;                          *)
(*   SpecTwin  two JAXRandomSamplers created with the same key;            *)
(*   SpecBn    the training loop of the dropout / batch-norm notebook,     *)
(*             with its global key and its evaluation passes;              *)
(*   SpecPLoop the training loop of the multi-device notebook, with its    *)
(*             dropout keys and the arrays p_train_step donates.           *)
(*                                                                         *)
(* Abstractions.  A PRNG key is the path of split indices that derived it  *)
(* from PRNGKey(0): split(k, num) returns k extended by 0 .. num-1.  Two   *)
(* keys are the same key exactly when their paths are equal (the           *)
(* counter-based generator is taken to be collision free).  An image is a  *)
(* small integer, the parameters of the network an integer modulo          *)
(* ParamMod, and the network a fixed deterministic function of both.       *)
(***************************************************************************)
EXTENDS Integers, Sequences, FiniteSets, TLC

\* ------------------------------------------------------------------ bounds
SmallTrain == 6      \* the training sets of 0 .. SmallTrain examples, and
LargeTrain == 201    \* those of LargeTrain and LargeTrain + 1 examples
MaxBatch == 2        \* largest batch size of the single-device loaders
MaxEval == 2         \* largest evaluation set
ParamMod == 5        \* the abstract parameter space is 0 .. ParamMod-1

\* ------------------------------------------------------- program constants
NumEpochs == 5       \* for epoch in range(5)
EvalEvery == 100     \* if idx % 100 == 0
NumClasses == 10     \* jax.nn.one_hot(y, 10)

\* ------------------------------------------------------------ arithmetic
Min(a, b) == IF a <= b THEN a ELSE b

CeilDiv(a, b) == (a + b - 1) \div b

RECURSIVE SumSeq(_)
SumSeq(s) == IF s = <<>> THEN 0 ELSE Head(s) + SumSeq(Tail(s))

\* A function with domain 1..n as the tuple of its values (the same value,
\* computed once).
AsTuple(f) == f \o <<>>

Range(s) == {s[i] : i \in 1..Len(s)}

Take(s, k) == SubSeq(s, 1, Min(k, Len(s)))

Drop(s, k) == SubSeq(s, Min(k, Len(s)) + 1, Len(s))

\* ------------------------------------------------------------------ keys
\* jax.random.PRNGKey(0)
PRNGKey0 == <<0>>

\* jax.random.split(key, num)[i]
Split(key, i) == Append(key, i)

\* key after k times `key, subkey = jax.random.split(key)`: the first half of
\* k splits
RECURSIVE KeyAfter(_, _)
KeyAfter(key, k) == IF k = 0 THEN key ELSE Split(KeyAfter(key, k - 1), 0)

\* The random bits a key yields: a word computed from the whole path, the
\* sum of (key[i] + 1) * i over the path mixed with its length.
KeyBits(key) ==
    (7 + 131 * Len(key)
       + 31 * Cardinality({ijv \in (1..Len(key)) \X (1..Len(key)) \X (0..2) :
                              ijv[2] <= ijv[1] /\ ijv[3] <= key[ijv[1]]}))
      % 1009

\* jnp.arange(n), as the 1-indexed sequence <<0, ..., n-1>>
Arange(n) == AsTuple([i \in 1..n |-> i - 1])

\* The i-th random word drawn from a key.
RandomBits(key, i) == (KeyBits(key) * 75 + (i + 1) * (i + 7) * 211) % 1021

\* The place of every position once the positions are sorted by their random
\* words r (ties keep their order).
SortedPlace(r) ==
    AsTuple([i \in DOMAIN r |->
        1 + Cardinality({j \in DOMAIN r : r[j] < r[i] \/ (r[j] = r[i] /\ j < i)})])

\* The entries of x moved to their places.
MoveTo(x, place) ==
    AsTuple([p \in DOMAIN x |-> x[CHOOSE i \in DOMAIN x : place[i] = p]])

\* jax.random.permutation(key, x).tolist(): the shuffle sorts the entries by
\* the random words drawn for their positions
Permutation(key, x) ==
    MoveTo(x, SortedPlace(AsTuple([i \in DOMAIN x |-> RandomBits(key, i)])))

\* ------------------------------------------------------------ python values
\* A value carries its Python type: "nd" a numpy array (v: its entries along
\* axis 0), "int" a Python int, "tuple" and "list" the containers.
NdArray(v) == [t |-> "nd", v |-> v]

PyInt(k) == [t |-> "int", v |-> k]

PyTuple(fields) == [t |-> "tuple", v |-> fields]

PyList(fields) == [t |-> "list", v |-> fields]

\* min(len(sample) for sample in batch): where zip(*batch) stops
RECURSIVE ZipLen(_)
ZipLen(batch) ==
    IF Len(batch) = 1 THEN Len(batch[1].v)
    ELSE Min(Len(batch[1].v), ZipLen(Tail(batch)))

\* Mutant: the fields of tuple samples are gathered but not collated.
RECURSIVE numpy_collate_gather(_)
numpy_collate_gather(batch) ==
    IF batch[1].t = "nd"
    THEN NdArray(AsTuple([i \in 1..Len(batch) |-> batch[i].v]))
    ELSE IF batch[1].t \in {"tuple", "list"}
    THEN PyList(AsTuple([k \in 1..ZipLen(batch) |->
                    PyList(AsTuple([i \in 1..Len(batch) |-> batch[i].v[k]]))]))
    ELSE NdArray(AsTuple([i \in 1..Len(batch) |-> batch[i].v]))

\* numpy_collate(batch): batch is a non-empty list of samples
RECURSIVE numpy_collate(_)
numpy_collate(batch) ==
    IF batch[1].t = "nd"
    THEN NdArray(AsTuple([i \in 1..Len(batch) |-> batch[i].v]))
    ELSE IF batch[1].t \in {"tuple", "list"}
    THEN PyList(AsTuple([k \in 1..ZipLen(batch) |->
                    numpy_collate(AsTuple([i \in 1..Len(batch) |-> batch[i].v[k]]))]))
    ELSE NdArray(AsTuple([i \in 1..Len(batch) |-> batch[i].v]))

\* ------------------------------------------------------------------ data
\* FlattenAndCast()(pic): the flattened image of example i, one pixel wide
FlattenAndCast(i) == NdArray(<<(i * i) % 4>>)

\* MNIST(...)[i]: the sample (image, label) of example i
MNIST(i) == PyTuple(<<FlattenAndCast(i), PyInt((i \div 2) % NumClasses)>>)

\* ------------------------------------------------------------- the loaders
\* JAXRandomSampler.__len__: len(self.data_source), for a data source of n
\* examples
JAXRandomSampler_len(n) == n

\* Mutant: the indices are drawn independently (randint) instead of permuted.
JAXRandomSampler_iter_randint(rng_key, n) ==
    [rng_key |-> Split(rng_key, 0),
     current_rng |-> Split(rng_key, 1),
     indices |-> AsTuple([i \in 1..n |-> RandomBits(Split(rng_key, 1), i) % n])]

\* Mutant: the first half of the split is not stored back as self.rng_key.
JAXRandomSampler_iter_keepkey(rng_key, n) ==
    [rng_key |-> rng_key,
     current_rng |-> Split(rng_key, 1),
     indices |-> Permutation(Split(rng_key, 1), Arange(n))]

\* JAXRandomSampler.__iter__: the new rng_key and the indices handed out
JAXRandomSampler_iter(rng_key, n) ==
    [rng_key |-> Split(rng_key, 0),
     current_rng |-> Split(rng_key, 1),
     indices |-> Permutation(Split(rng_key, 1), Arange(JAXRandomSampler_len(n)))]

\* Mutant: the sequential sampler runs from the last index to the first.
SequentialSampler_iter_reversed(n) == AsTuple([i \in 1..n |-> n - i])

\* SequentialSampler.__iter__
SequentialSampler_iter(n) == Arange(n)

\* Mutant: drop_last is ignored, the incomplete last batch is kept.
BatchSampler_keeplast(indices, batch_size, drop_last) ==
    AsTuple([k \in 1..CeilDiv(Len(indices), batch_size) |->
                SubSeq(indices, (k - 1) * batch_size + 1,
                       Min(k * batch_size, Len(indices)))])

\* BatchSampler: the index batches of one pass, batch_size indices each; the
\* incomplete last batch is kept unless drop_last
BatchSampler(indices, batch_size, drop_last) ==
    LET full == Len(indices) \div batch_size
        count == IF drop_last THEN full ELSE CeilDiv(Len(indices), batch_size)
    IN AsTuple([k \in 1..count |->
                   SubSeq(indices, (k - 1) * batch_size + 1,
                          Min(k * batch_size, Len(indices)))])

\* DataLoader's fetch: collate_fn([dataset[i] for i in batch])
Fetch(batch) == numpy_collate(AsTuple([k \in 1..Len(batch) |-> MNIST(batch[k])]))

\* ------------------------------------------------------------- the network
\* jnp.argmax(state.apply_fn(params, x), -1) for one image
Predict(params, image) == (params * 3 + image[1]) % NumClasses

\* apply_model(state, x): the predicted class of every row of x
apply_model(state, x) ==
    NdArray(AsTuple([i \in 1..Len(x.v) |-> Predict(state.params, x.v[i])]))

\* jnp.sum(y_pred == y)
CountEqual(a, b) == Cardinality({i \in 1..Len(a.v) : a.v[i] = b.v[i]})

\* grad of the mean cross-entropy of the batch, as an abstract parameter step
Grads(params, x, y) ==
    SumSeq([i \in 1..Len(x.v) |->
               IF Predict(params, x.v[i]) = y.v[i] THEN 0 ELSE 1 + x.v[i][1]])
      % ParamMod

\* TrainState.apply_gradients(grads=grads)
apply_gradients(state, grads) ==
    [step |-> state.step + 1,
     params |-> (state.params + grads) % ParamMod,
     opt_state |-> (state.opt_state * 2 + grads) % ParamMod]

\* train_step(state, x, y): the new state (the loss is not modelled)
train_step(state, x, y) == apply_gradients(state, Grads(state.params, x, y))

\* NumpyLoader(dataset, rng_key, batch_size, shuffle, drop_last=...): the
\* sampler is a JAXRandomSampler when shuffle is true, else sequential
NumpyLoader(n, rng_key, batch_size, shuffle, drop_last) ==
    [n |-> n,
     sampler |-> IF shuffle THEN "JAXRandomSampler" ELSE "SequentialSampler",
     rng_key |-> IF shuffle THEN rng_key ELSE <<>>,
     batch_size |-> batch_size,
     drop_last |-> drop_last]

\* iter(loader): the loader after the call (its sampler's key advanced), the
\* key the pass was drawn from and the index batches of the pass
DataLoader_iter(loader) ==
    IF loader.sampler = "JAXRandomSampler"
    THEN LET it == JAXRandomSampler_iter(loader.rng_key, loader.n)
         IN [loader |-> [loader EXCEPT !.rng_key = it.rng_key],
             current_rng |-> <<it.current_rng>>,
             indices |-> it.indices,
             batches |-> BatchSampler(it.indices, loader.batch_size,
                                      loader.drop_last)]
    ELSE [loader |-> loader,
          current_rng |-> <<>>,
          indices |-> SequentialSampler_iter(loader.n),
          batches |-> BatchSampler(SequentialSampler_iter(loader.n),
                                   loader.batch_size, loader.drop_last)]

\* The sums of eval_model's loop over the batches of one pass: total_num
\* adds len(x) and total_acc adds jnp.sum(y_pred == y), batch by batch.
EvalBatches(state, batches) ==
    LET xy == AsTuple([k \in 1..Len(batches) |-> Fetch(batches[k])])
        y_pred == AsTuple([k \in 1..Len(batches) |->
                              apply_model(state, xy[k].v[1])])
    IN [total_acc |->
            Cardinality({ki \in UNION {{<<k, i>> : i \in 1..Len(batches[k])} :
                                          k \in 1..Len(batches)} :
                            y_pred[ki[1]].v[ki[2]] = xy[ki[1]].v[2].v[ki[2]]}),
        total_num |->
            Cardinality(UNION {{<<k, i>> : i \in 1..Len(xy[k].v[1].v)} :
                                  k \in 1..Len(batches)})]

\* eval_model(state, loader): total_acc / total_num as the pair of both (the
\* division raises ZeroDivisionError when the pass holds no batch), with the
\* loader as the pass leaves it
eval_model(state, loader) ==
    LET it == DataLoader_iter(loader)
        tot == EvalBatches(state, it.batches)
    IN [total_acc |-> tot.total_acc,
        total_num |-> tot.total_num,
        raised |-> tot.total_num = 0,
        seen |-> UNION {Range(it.batches[k]) : k \in 1..Len(it.batches)},
        indices |-> it.indices,
        current_rng |-> it.current_rng,
        loader |-> it.loader]

\* =================================================== the training loop (Spec)
VARIABLES
    train_loader,   \* NumpyLoader(mnist_dataset_train, loader_key, shuffle=True, drop_last=True)
    eval_loader,    \* NumpyLoader(mnist_dataset_test, shuffle=False, drop_last=False)
    state,          \* the TrainState the name `state` is bound to
    pc,             \* where the loop cell is
    epoch,          \* the epoch of `for epoch in range(5)`
    idx,            \* the batch index of `enumerate(train_loader)`
    train_iter,     \* the index batches the epoch's iterator still holds
    train_acc,      \* the last eval_model(state, train_loader)
    eval_acc,       \* the last eval_model(state, eval_loader)
    printed,        \* the last printed report
    history         \* what the run has done so far (for the properties)

loopVars == <<train_loader, eval_loader, state, pc, epoch, idx, train_iter,
              train_acc, eval_acc, printed, history>>

\* The multi-device notebook (SpecPmap).
VARIABLES
    devices,        \* jax.local_device_count()
    replicas,       \* the replicated state: one CustomTrainState per device
    p_eval_loader,  \* its eval_loader, batch_size = 128 * jax.local_device_count()
    last_step,      \* whether the devices' inputs differed in the last p_train_step
    all_acc,        \* eval_model(state, eval_loader) of this state, on all devices
    single_acc      \* eval_model_single(replica 0, eval_loader) of this state

pmapVars == <<devices, replicas, p_eval_loader, last_step, all_acc, single_acc>>

\* The pure functions (SpecPure).
VARIABLES
    call            \* the last call: the function, its arguments and its result

pureVars == <<call>>

\* Two samplers with the same key (SpecTwin).
VARIABLES
    sampler_a,      \* a JAXRandomSampler, with the permutations it has yielded
    sampler_b,      \* a second JAXRandomSampler created with the same rng_key
    global_key      \* the key the rest of the program goes on splitting

twinVars == <<sampler_a, sampler_b, global_key>>

\* The single-device dropout / batch-norm notebook (SpecBn).
VARIABLES
    bn_train_loader,  \* NumpyLoader(mnist_dataset_train, loader_key, shuffle=True, drop_last=True)
    bn_eval_loader,   \* NumpyLoader(mnist_dataset_test, shuffle=False, drop_last=False)
    bn_state,         \* the CustomTrainState the name `state` is bound to
    bn_key,           \* the global key the name `key` is bound to
    bn_pc,            \* where the loop cell is
    bn_epoch,         \* the epoch of `for epoch in range(5)`
    bn_idx,           \* the batch index of `enumerate(train_loader)`
    bn_iter,          \* the index batches the epoch's iterator still holds
    bn_hist           \* what the run has done so far (for the properties)

bnVars == <<bn_train_loader, bn_eval_loader, bn_state, bn_key, bn_pc, bn_epoch,
            bn_idx, bn_iter, bn_hist>>

\* The training loop of the multi-device notebook (SpecPLoop).
VARIABLES
    pl_devices,       \* jax.local_device_count()
    pl_train_loader,  \* its train_loader, batch_size = 128 * jax.local_device_count()
    pl_eval_loader,   \* its eval_loader
    pl_state,         \* the replicated state the name `state` is bound to
    pl_key,           \* the global key the name `key` is bound to
    pl_pc,            \* where the loop cell, or the cell after it, is
    pl_epoch,         \* the epoch of `for epoch in range(5)`
    pl_idx,           \* the batch index of `enumerate(train_loader)`
    pl_iter,          \* the index batches the epoch's iterator still holds
    pl_hist           \* what the run has done so far (for the properties)

plVars == <<pl_devices, pl_train_loader, pl_eval_loader, pl_state, pl_key, pl_pc,
            pl_epoch, pl_idx, pl_iter, pl_hist>>

restVars == <<twinVars, bnVars, plVars>>

vars == <<loopVars, pmapVars, pureVars, restVars>>

\* The variables of a notebook that is not running.
IdleLoop ==
    /\ train_loader = <<>> /\ eval_loader = <<>> /\ state = <<>> /\ pc = "idle"
    /\ epoch = 0 /\ idx = 0 /\ train_iter = <<>> /\ train_acc = <<>>
    /\ eval_acc = <<>> /\ printed = <<>> /\ history = <<>>

IdlePmap ==
    /\ devices = 0 /\ replicas = <<>> /\ p_eval_loader = <<>> /\ last_step = <<>>
    /\ all_acc = <<>> /\ single_acc = <<>>

IdlePure == call = <<>>

IdleTwin == sampler_a = <<>> /\ sampler_b = <<>> /\ global_key = <<>>

IdleBn ==
    /\ bn_train_loader = <<>> /\ bn_eval_loader = <<>> /\ bn_state = <<>>
    /\ bn_key = <<>> /\ bn_pc = "idle" /\ bn_epoch = 0 /\ bn_idx = 0
    /\ bn_iter = <<>> /\ bn_hist = <<>>

IdlePLoop ==
    /\ pl_devices = 0 /\ pl_train_loader = <<>> /\ pl_eval_loader = <<>>
    /\ pl_state = <<>> /\ pl_key = <<>> /\ pl_pc = "idle" /\ pl_epoch = 0
    /\ pl_idx = 0 /\ pl_iter = <<>> /\ pl_hist = <<>>

IdleRest == IdleTwin /\ IdleBn /\ IdlePLoop

\* An accuracy not computed yet.
NoAcc == [total_acc |-> 0, total_num |-> 0, seen |-> {}, epoch |-> -1,
          idx |-> -1, step |-> -1]

NoHistory(n) ==
    [iter_keys |-> <<>>,           \* current_rng of every JAXRandomSampler.__iter__
     last_perm |-> <<>>,           \* the indices the last __iter__ handed out
     used |-> [i \in 0..(n - 1) |-> 0],  \* updates that used index i, this epoch
     batch |-> <<>>,               \* the index batch of the last update
     updates |-> 0,                \* updates applied in this epoch
     evals |-> {},                 \* the idx of the reports printed in this epoch
     epoch_updates |-> <<>>,       \* updates applied in each finished epoch
     epoch_evals |-> <<>>]         \* reports printed in each finished epoch

\* key, loader_key = jax.random.split(key) after the two splits that
\* initialise the model
LoaderKey == Split(KeyAfter(PRNGKey0, 2), 1)

\* len(mnist_dataset_train): small sets, and sets of more than two times
\* EvalEvery examples
TrainSizes == (0..SmallTrain) \cup {LargeTrain, LargeTrain + 1}

TrainStateCreate == [step |-> 0, params |-> 0, opt_state |-> 0]

InitLoop ==
    /\ \E n \in TrainSizes, m \in 1..MaxEval, b \in 1..MaxBatch :
          /\ train_loader = NumpyLoader(n, LoaderKey, b, TRUE, TRUE)
          /\ eval_loader = NumpyLoader(m, <<>>, b, FALSE, FALSE)
          /\ history = NoHistory(n)
    /\ state = TrainStateCreate
    /\ pc = "for_epoch"
    /\ epoch = 0
    /\ idx = 0
    /\ train_iter = <<>>
    /\ train_acc = NoAcc
    /\ eval_acc = NoAcc
    /\ printed = [epoch |-> -1, idx |-> -1, train_acc |-> NoAcc, eval_acc |-> NoAcc]

\* history after a pass over the train loader was started by iter()
NoteIter(h, it) ==
    [h EXCEPT !.iter_keys = h.iter_keys \o it.current_rng,
              !.last_perm = it.indices]

\* for epoch in range(5): the next epoch starts with enumerate(train_loader),
\* or the loop is over
ForEpoch ==
    /\ pc = "for_epoch"
    /\ IF epoch < NumEpochs
       THEN LET it == DataLoader_iter(train_loader)
            IN /\ train_loader' = it.loader
               /\ train_iter' = it.batches
               /\ history' = [NoteIter(history, it) EXCEPT
                                 !.used = [i \in DOMAIN history.used |-> 0],
                                 !.updates = 0,
                                 !.evals = {}]
               /\ idx' = 0
               /\ pc' = "for_batch"
       ELSE /\ pc' = "done"
            /\ UNCHANGED <<train_loader, train_iter, history, idx>>
    /\ UNCHANGED <<eval_loader, state, epoch, train_acc, eval_acc, printed>>
    /\ UNCHANGED <<pmapVars, pureVars, restVars>>

\* Mutant: the evaluation runs for the last batch of every hundred.
IsEvalStep_last(i) == (i + 1) % EvalEvery = 0

\* if idx % 100 == 0:  # evaluation
IsEvalStep(i) == i % EvalEvery = 0

\* for idx, (x, y) in enumerate(train_loader): the next batch, and
\* state, loss = jit_train_step(state, x, y); if idx % 100 == 0
TrainBatch ==
    /\ pc = "for_batch"
    /\ train_iter # <<>>
    /\ LET batch == Head(train_iter)
           xy == Fetch(batch)
       IN /\ state' = train_step(state, xy.v[1], xy.v[2])
          /\ history' = [history EXCEPT
                            !.used = [i \in DOMAIN history.used |->
                                         history.used[i]
                                         + Cardinality({k \in 1..Len(batch) : batch[k] = i})],
                            !.batch = batch,
                            !.updates = history.updates + 1]
    /\ train_iter' = Tail(train_iter)
    /\ IF IsEvalStep(idx)
       THEN pc' = "eval_train" /\ idx' = idx
       ELSE pc' = "for_batch" /\ idx' = idx + 1
    /\ UNCHANGED <<train_loader, eval_loader, epoch, train_acc, eval_acc, printed>>
    /\ UNCHANGED <<pmapVars, pureVars, restVars>>

\* the iterator of the epoch is exhausted (an incomplete last batch is
\* dropped by the batch sampler): the epoch is over
EndEpoch ==
    /\ pc = "for_batch"
    /\ train_iter = <<>>
    /\ epoch' = epoch + 1
    /\ pc' = "for_epoch"
    /\ history' = [history EXCEPT
                      !.epoch_updates = Append(history.epoch_updates, history.updates),
                      !.epoch_evals = Append(history.epoch_evals,
                                             Cardinality(history.evals))]
    /\ UNCHANGED <<train_loader, eval_loader, state, idx, train_iter, train_acc,
                   eval_acc, printed>>
    /\ UNCHANGED <<pmapVars, pureVars, restVars>>

\* train_acc = eval_model(state, train_loader)
EvalTrain ==
    /\ pc = "eval_train"
    /\ LET r == eval_model(state, train_loader)
       IN /\ train_loader' = r.loader
          /\ train_acc' = [total_acc |-> r.total_acc, total_num |-> r.total_num,
                           seen |-> r.seen, epoch |-> epoch, idx |-> idx,
                           step |-> state.step]
          /\ history' = NoteIter(history, r)
          /\ pc' = IF r.raised THEN "raised" ELSE "eval_test"
    /\ UNCHANGED <<eval_loader, state, epoch, idx, train_iter, eval_acc, printed>>
    /\ UNCHANGED <<pmapVars, pureVars, restVars>>

\* eval_acc = eval_model(state, eval_loader)
EvalTest ==
    /\ pc = "eval_test"
    /\ LET r == eval_model(state, eval_loader)
       IN /\ eval_loader' = r.loader
          /\ eval_acc' = [total_acc |-> r.total_acc, total_num |-> r.total_num,
                          seen |-> r.seen, epoch |-> epoch, idx |-> idx,
                          step |-> state.step]
          /\ pc' = IF r.raised THEN "raised" ELSE "print"
    /\ UNCHANGED <<train_loader, state, epoch, idx, train_iter, train_acc,
                   printed, history>>
    /\ UNCHANGED <<pmapVars, pureVars, restVars>>

\* print("Epoch {} - batch_idx {}, ..., Training set acc {}, eval set accuracy {}")
PrintReport ==
    /\ pc = "print"
    /\ printed' = [epoch |-> epoch, idx |-> idx, train_acc |-> train_acc,
                   eval_acc |-> eval_acc]
    /\ history' = [history EXCEPT !.evals = history.evals \cup {idx}]
    /\ idx' = idx + 1
    /\ pc' = "for_batch"
    /\ UNCHANGED <<train_loader, eval_loader, state, epoch, train_iter, train_acc,
                   eval_acc>>
    /\ UNCHANGED <<pmapVars, pureVars, restVars>>

Init == InitLoop /\ IdlePmap /\ IdlePure /\ IdleRest

Next == ForEpoch \/ TrainBatch \/ EndEpoch \/ EvalTrain \/ EvalTest \/ PrintReport

Spec == Init /\ [][Next]_vars

\* ===================================== the multi-device notebook (SpecPmap)
MaxDevices == 2      \* most devices
MaxPerDevice == 2    \* largest per-device batch size
MaxSteps == 2        \* most training steps
MaxOffset == 1       \* a device's shard starts at example 0 .. MaxOffset

\* key, init_key, drop_key = jax.random.split(key, 3), after the first split
DropKey == Split(KeyAfter(PRNGKey0, 1), 2)

\* CustomTrainState.create(...)
CustomTrainStateCreate == [step |-> 0, params |-> 0, opt_state |-> 0, batch_stats |-> 0]

\* jax.device_put_replicated(state, devices)
device_put_replicated(st, D) == AsTuple([d \in 1..D |-> st])

\* x.reshape((jax.local_device_count(), -1) + x.shape[1:]): the rows of x in D
\* consecutive shards; it raises when the rows are not a multiple of D
Reshape(x, D) ==
    [raised |-> Len(x.v) % D # 0,
     shards |-> AsTuple([d \in 1..D |->
                    NdArray(SubSeq(x.v, (d - 1) * (Len(x.v) \div D) + 1,
                                   d * (Len(x.v) \div D)))])]

\* jnp.argmax(logits, -1) of one image with train=False: dropout is off and
\* batch norm uses the running averages of batch_stats
PredictBN(st, image) == (st.params * 3 + st.batch_stats + image[1]) % NumClasses

\* apply_model(state, x) of the multi-device notebook
p_apply_model(st, x) ==
    NdArray(AsTuple([i \in 1..Len(x.v) |-> PredictBN(st, x.v[i])]))

\* The gradients one device computes from its shard and its dropout key.
LocalGrads(st, x, y, dropout_key) ==
    (SumSeq(AsTuple([i \in 1..Len(x.v) |->
                IF PredictBN(st, x.v[i]) = y.v[i] THEN 0 ELSE 1 + x.v[i][1]]))
       + KeyBits(dropout_key)) % ParamMod

\* new_state["batch_stats"]: the running averages one device computes from its
\* shard
LocalBatchStats(st, x) ==
    (st.batch_stats + SumSeq(AsTuple([i \in 1..Len(x.v) |-> x.v[i][1]]))) % ParamMod

\* Mutant: no all-reduce, every device keeps its own value.
PMean_local(vals) == vals

\* jax.lax.pmean(v, "batch"): on every device, the mean of the devices' values
PMean(vals) == AsTuple([d \in 1..Len(vals) |-> SumSeq(vals) \div Len(vals)])

\* Mutant: the update leaves the step counter as it is.
p_apply_gradients_nostep(st, grads, batch_stats) ==
    [step |-> st.step,
     params |-> (st.params + grads) % ParamMod,
     opt_state |-> (st.opt_state * 2 + grads) % ParamMod,
     batch_stats |-> batch_stats]

\* state.apply_gradients(grads=grads, batch_stats=batch_stats)
p_apply_gradients(st, grads, batch_stats) ==
    [step |-> st.step + 1,
     params |-> (st.params + grads) % ParamMod,
     opt_state |-> (st.opt_state * 2 + grads) % ParamMod,
     batch_stats |-> batch_stats]

\* p_train_step(state, xs, ys, dropout_key): train_step on every device
p_train_step(st, xs, ys, keys) ==
    LET local == AsTuple([d \in 1..Len(st) |-> LocalGrads(st[d], xs[d], ys[d], keys[d])])
        stats == AsTuple([d \in 1..Len(st) |-> LocalBatchStats(st[d], xs[d])])
        grads == PMean(local)
        batch_stats == PMean(stats)
    IN [state |-> AsTuple([d \in 1..Len(st) |->
                      p_apply_gradients(st[d], grads[d], batch_stats[d])]),
        local_grads |-> local]

\* The sums of the multi-device eval_model over the batches of one pass; a
\* batch the reshape cannot split raises.
PEvalBatches(st, batches, D) ==
    LET xy == AsTuple([k \in 1..Len(batches) |-> Fetch(batches[k])])
        xs == AsTuple([k \in 1..Len(batches) |-> Reshape(xy[k].v[1], D)])
        ys == AsTuple([k \in 1..Len(batches) |-> Reshape(xy[k].v[2], D)])
        y_pred == AsTuple([k \in 1..Len(batches) |->
                     AsTuple([d \in 1..D |-> p_apply_model(st[d], xs[k].shards[d])])])
    IN [raised |-> \E k \in 1..Len(batches) : xs[k].raised,
        total_acc |->
            Cardinality({kdi \in UNION {{<<k, d, i>> : d \in 1..D,
                                                      i \in 1..Len(xs[k].shards[1].v)} :
                                           k \in 1..Len(batches)} :
                            y_pred[kdi[1]][kdi[2]].v[kdi[3]]
                              = ys[kdi[1]].shards[kdi[2]].v[kdi[3]]}),
        total_num |->
            Cardinality(UNION {{<<k, i>> : i \in 1..Len(xy[k].v[2].v)} :
                                  k \in 1..Len(batches)})]

\* eval_model(state, loader) of the multi-device notebook
p_eval_model(st, loader, D) ==
    LET tot == PEvalBatches(st, DataLoader_iter(loader).batches, D)
    IN [raised |-> tot.raised \/ tot.total_num = 0,
        total_acc |-> IF tot.raised THEN 0 ELSE tot.total_acc,
        total_num |-> IF tot.raised THEN 0 ELSE tot.total_num]

\* The sums of eval_model_single over the batches of one pass.
SingleEvalBatches(st, batches) ==
    LET xy == AsTuple([k \in 1..Len(batches) |-> Fetch(batches[k])])
        y_pred == AsTuple([k \in 1..Len(batches) |-> p_apply_model(st, xy[k].v[1])])
    IN [total_acc |->
            Cardinality({ki \in UNION {{<<k, i>> : i \in 1..Len(batches[k])} :
                                          k \in 1..Len(batches)} :
                            y_pred[ki[1]].v[ki[2]] = xy[ki[1]].v[2].v[ki[2]]}),
        total_num |->
            Cardinality(UNION {{<<k, i>> : i \in 1..Len(xy[k].v[2].v)} :
                                  k \in 1..Len(batches)})]

\* eval_model_single(state, loader)
eval_model_single(st, loader) ==
    LET tot == SingleEvalBatches(st, DataLoader_iter(loader).batches)
    IN [raised |-> tot.total_num = 0,
        total_acc |-> tot.total_acc,
        total_num |-> tot.total_num]

\* An evaluation not made yet.
NoEval == [made |-> FALSE, raised |-> FALSE, total_acc |-> 0, total_num |-> 0]

\* No step made yet.
NoStep == [made |-> FALSE, differ |-> FALSE]

InitPmapVars ==
    /\ \E D \in 1..MaxDevices, b \in 1..MaxPerDevice, m \in 1..MaxEval :
          /\ devices = D
          /\ p_eval_loader = NumpyLoader(m, <<>>, b * D, FALSE, FALSE)
    /\ replicas = device_put_replicated(CustomTrainStateCreate, devices)
    /\ last_step = NoStep
    /\ all_acc = NoEval
    /\ single_acc = NoEval

InitPmap == IdleLoop /\ InitPmapVars /\ IdlePure /\ IdleRest

\* state, loss = p_train_step(state, xs, ys, dropout_key), for any shards of
\* the per-device batch size and the split of any of two keys as the devices'
\* dropout keys; last_step notes whether two devices had different shards,
\* keys and gradients.  The accuracies of the state before are forgotten.
PTrainStep ==
    /\ devices > 0
    /\ replicas[1].step < MaxSteps
    /\ \E offsets \in [1..devices -> 0..MaxOffset], k \in 0..1 :
          LET b == p_eval_loader.batch_size \div devices
              keys == AsTuple([d \in 1..devices |-> Split(Split(DropKey, k), d - 1)])
              xy == AsTuple([d \in 1..devices |->
                        Fetch(AsTuple([i \in 1..b |-> offsets[d] + i - 1]))])
              xs == AsTuple([d \in 1..devices |-> xy[d].v[1]])
              ys == AsTuple([d \in 1..devices |-> xy[d].v[2]])
              r == p_train_step(replicas, xs, ys, keys)
          IN /\ replicas' = r.state
             /\ last_step' =
                   [made |-> TRUE,
                    differ |-> \E d, e \in 1..devices :
                                  /\ xs[d] # xs[e]
                                  /\ keys[d] # keys[e]
                                  /\ r.local_grads[d] # r.local_grads[e]]
    /\ all_acc' = NoEval
    /\ single_acc' = NoEval
    /\ UNCHANGED <<devices, p_eval_loader>>
    /\ UNCHANGED <<loopVars, pureVars, restVars>>

\* eval_model(state, eval_loader) on all devices
PEvalModel ==
    /\ devices > 0
    /\ all_acc' = [made |-> TRUE] @@ p_eval_model(replicas, p_eval_loader, devices)
    /\ UNCHANGED <<devices, replicas, p_eval_loader, last_step, single_acc>>
    /\ UNCHANGED <<loopVars, pureVars, restVars>>

\* eval_model_single(jax.tree_util.tree_map(lambda x: x[0], state), eval_loader)
PEvalSingle ==
    /\ devices > 0
    /\ single_acc' = [made |-> TRUE] @@ eval_model_single(replicas[1], p_eval_loader)
    /\ UNCHANGED <<devices, replicas, p_eval_loader, last_step, all_acc>>
    /\ UNCHANGED <<loopVars, pureVars, restVars>>

NextPmap == PTrainStep \/ PEvalModel \/ PEvalSingle

SpecPmap == InitPmap /\ [][NextPmap]_vars

\* ============================================ the pure functions (SpecPure)
MaxCollate == 3      \* largest batch handed to numpy_collate
MaxLossBatch == 2    \* largest batch handed to loss
MaxLayers == 3       \* most layers of init_network_params
MaxWidth == 3        \* largest layer size

\* A sample of the dataset: (image, label), or (image, [label, array]) with a
\* list field
Sample(shape, img, lab) ==
    IF shape = "flat"
    THEN PyTuple(<<NdArray(<<img, 1 - img>>), PyInt(lab)>>)
    ELSE PyTuple(<<NdArray(<<img, 1 - img>>),
                   PyList(<<PyInt(lab), NdArray(<<lab, img>>)>>)>>)

\* Mutant: the labels are compared with the classes 1 .. k.
one_hot_from1(x, k) ==
    AsTuple([i \in 1..Len(x) |->
                AsTuple([c \in 1..k |-> IF x[i] = Arange(k)[c] + 1 THEN 1 ELSE 0])])

\* one_hot(x, k): x[:, None] == jnp.arange(k), as 0/1 entries
one_hot(x, k) ==
    AsTuple([i \in 1..Len(x) |->
                AsTuple([c \in 1..k |-> IF x[i] = Arange(k)[c] THEN 1 ELSE 0])])

\* model_forward(params, x): the logits of one image, as exponents of 2
model_forward(params, image) ==
    AsTuple([c \in 1..NumClasses |-> (params + image * c) % 3])

\* batched_forward = vmap(model_forward, in_axes=(None, 0)): one row of
\* logits per image
batched_forward(params, images) ==
    AsTuple([e \in 1..Len(images) |-> model_forward(params, images[e])])

\* exp(logsumexp(logits)): logsumexp is called without an axis and reduces
\* over every entry of the batch of logits
ExpLogSumExp(logits) ==
    SumSeq(AsTuple([e \in 1..Len(logits) |->
              SumSeq(AsTuple([c \in 1..Len(logits[e]) |-> 2 ^ logits[e][c]]))]))

\* loss(params, images, targets): exp(preds) entry by entry, as the fraction
\* num / den, and the entries the mean is taken over
loss(params, images, targets) ==
    LET logits == batched_forward(params, images)
        z == ExpLogSumExp(logits)
    IN [exp_preds |-> AsTuple([e \in 1..Len(logits) |->
                         AsTuple([c \in 1..Len(logits[e]) |->
                             [num |-> 2 ^ logits[e][c], den |-> z]])]),
        targets |-> targets,
        mean_over |-> Len(logits) * NumClasses]

\* Mutant: the weights are drawn with shape (m, n).
random_layer_params_mn(m, n, key) ==
    <<[shape |-> <<m, n>>, key |-> Split(key, 0)],
      [shape |-> <<n>>, key |-> Split(key, 1)]>>

\* random_layer_params(m, n, key): (w, b), each the shape and the key of the
\* normal draw
random_layer_params(m, n, key) ==
    <<[shape |-> <<n, m>>, key |-> Split(key, 0)],
      [shape |-> <<n>>, key |-> Split(key, 1)]>>

\* init_network_params(sizes, key): zip stops at the shortest of sizes[:-1],
\* sizes[1:] and the len(sizes) keys
init_network_params(sizes, key) ==
    LET keys == AsTuple([i \in 1..Len(sizes) |-> Split(key, i - 1)])
    IN AsTuple([i \in 1..Min(Len(sizes) - 1, Len(keys)) |->
                   random_layer_params(sizes[i], sizes[i + 1], keys[i])])

\* ---------------------------------------------- shapes of model_forward
MaxFwdBatch == 3     \* batch sizes 1 .. MaxFwdBatch, besides the layer sizes
MaxOneHot == 3       \* longest label array handed to one_hot
MaxK == 3            \* largest number of classes handed to one_hot

\* layer_sizes = [784, 512, 512, 10], for a hidden width h
LayerSizes(h) == <<784, h, h, 10>>

\* The hidden widths tried: the notebook's, the input width and 1.
HiddenSizes == {512, 784, 1}

\* The shape of jnp.dot(a, b) for arrays of one or two dimensions: the last
\* axis of a is summed with the only axis of a vector b, or with the
\* second-to-last axis of b; it raises when the two lengths differ
DotShape(a, b) ==
    LET kb == IF Len(b) = 1 THEN b[1] ELSE b[Len(b) - 1]
    IN [raised |-> a[Len(a)] # kb,
        shape |-> SubSeq(a, 1, Len(a) - 1)
                  \o (IF Len(b) = 1 THEN <<>> ELSE <<b[Len(b)]>>)]

\* The shape of a + b under broadcasting: the shapes are aligned at the
\* right, and two lengths must be equal unless one of them is 1
AddShape(a, b) ==
    LET n == IF Len(a) > Len(b) THEN Len(a) ELSE Len(b)
        Dim(x, i) == IF i + Len(x) - n >= 1 THEN x[i + Len(x) - n] ELSE 1
    IN [raised |-> \E i \in 1..n :
                      Dim(a, i) # Dim(b, i) /\ Dim(a, i) # 1 /\ Dim(b, i) # 1,
        shape |-> AsTuple([i \in 1..n |->
                     IF Dim(a, i) = 1 THEN Dim(b, i) ELSE Dim(a, i)])]

\* Mutant: the layer computes jnp.dot(x, w.T) + b, which accepts a batch.
LayerShape_xwT(w, b, x) ==
    LET dot == DotShape(x, <<w.shape[2], w.shape[1]>>)
        sum == AddShape(dot.shape, b.shape)
    IN [raised |-> dot.raised \/ sum.raised, shape |-> sum.shape]

\* jnp.dot(w, x) + b (relu keeps the shape)
LayerShape(w, b, x) ==
    LET dot == DotShape(w.shape, x)
        sum == AddShape(dot.shape, b.shape)
    IN [raised |-> dot.raised \/ sum.raised, shape |-> sum.shape]

\* model_forward(params, x), for x of shape x_shape: whether it raises, and
\* the shape of the logits; the layers are applied one after the other
RECURSIVE model_forward_shape(_, _)
model_forward_shape(params, x_shape) ==
    IF params = <<>>
    THEN [raised |-> FALSE, shape |-> x_shape]
    ELSE LET out == LayerShape(Head(params)[1], Head(params)[2], x_shape)
         IN IF out.raised
            THEN [raised |-> TRUE, shape |-> <<>>]
            ELSE model_forward_shape(Tail(params), out.shape)

\* batched_forward(params, x) = vmap(model_forward, in_axes=(None, 0),
\* out_axes=0): model_forward on x without its axis 0, the results stacked
\* along a new axis 0
batched_forward_shape(params, x_shape) ==
    LET one == model_forward_shape(params, Tail(x_shape))
    IN [raised |-> one.raised,
        shape |-> IF one.raised THEN <<>> ELSE <<Head(x_shape)>> \o one.shape]

\* No call made yet: the functions are pure, so every behaviour makes one call.
InitPure == IdleLoop /\ IdlePmap /\ call = [fn |-> "none"] /\ IdleRest

\* numpy_collate(batch) for a batch of 1 .. MaxCollate samples
CallCollate ==
    /\ call.fn = "none"
    /\ \E B \in 1..MaxCollate, shape \in {"flat", "nested"} :
          \E imgs \in [1..B -> 0..1], labs \in [1..B -> 0..1] :
             LET batch == AsTuple([i \in 1..B |-> Sample(shape, imgs[i], labs[i])])
             IN call' = [fn |-> "numpy_collate", shape |-> shape, batch |-> batch,
                         result |-> numpy_collate(batch)]
    /\ UNCHANGED <<loopVars, pmapVars, restVars>>

\* loss(params, images, one_hot(y, n_classes)) for a batch of 1 .. MaxLossBatch
\* images
CallLoss ==
    /\ call.fn = "none"
    /\ \E B \in 1..MaxLossBatch, params \in 0..(ParamMod - 1) :
          \E imgs \in [1..B -> 0..1], labs \in [1..B -> 0..1] :
             call' = [fn |-> "loss", params |-> params, images |-> AsTuple(imgs),
                      y |-> AsTuple(labs),
                      result |-> loss(params, AsTuple(imgs),
                                      one_hot(AsTuple(labs), NumClasses))]
    /\ UNCHANGED <<loopVars, pmapVars, restVars>>

\* init_network_params(sizes, key) for 1 .. MaxLayers layers
CallInit ==
    /\ call.fn = "none"
    /\ \E L \in 2..(MaxLayers + 1), k \in 0..1 :
          \E sizes \in [1..L -> 1..MaxWidth] :
             call' = [fn |-> "init_network_params", sizes |-> AsTuple(sizes),
                      key |-> Split(KeyAfter(PRNGKey0, k), 1),
                      result |-> init_network_params(AsTuple(sizes),
                                     Split(KeyAfter(PRNGKey0, k), 1))]
    /\ UNCHANGED <<loopVars, pmapVars, restVars>>

\* model_forward(params, x) for one image or a batch, and
\* batched_forward(params, x) for a batch
CallForward ==
    /\ call.fn = "none"
    /\ \E B \in (1..MaxFwdBatch) \cup {10, 32, 512, 784}, h \in HiddenSizes,
          how \in {"image", "batch", "batched_forward"} :
          LET params == init_network_params(LayerSizes(h), Split(KeyAfter(PRNGKey0, 0), 1))
              x_shape == IF how = "image" THEN <<784>> ELSE <<B, 784>>
          IN call' = [fn |-> IF how = "batched_forward" THEN how ELSE "model_forward",
                      sizes |-> LayerSizes(h),
                      x_shape |-> x_shape,
                      result |-> IF how = "batched_forward"
                                 THEN batched_forward_shape(params, x_shape)
                                 ELSE model_forward_shape(params, x_shape)]
    /\ UNCHANGED <<loopVars, pmapVars, restVars>>

\* one_hot(x, k) for 1 .. MaxOneHot labels, in and out of the range of k
\* classes
CallOneHot ==
    /\ call.fn = "none"
    /\ \E n \in 1..MaxOneHot, k \in 1..MaxK :
          \E x \in [1..n -> (-1)..k] :
             call' = [fn |-> "one_hot", x |-> AsTuple(x), k |-> k,
                      result |-> one_hot(AsTuple(x), k)]
    /\ UNCHANGED <<loopVars, pmapVars, restVars>>

NextPure == CallCollate \/ CallLoss \/ CallInit \/ CallForward \/ CallOneHot

SpecPure == InitPure /\ [][NextPure]_vars

\* ================================== two samplers with one key (SpecTwin)
MaxTwinLen == 3      \* longest data source of the two samplers
MaxTwinIters == 3    \* most __iter__ calls on each sampler
MaxTwinOther == 2    \* most splits of the global key by the rest of the program

\* A data source of n examples whose content depends on seed.
DataSource(n, seed) == AsTuple([i \in 1..n |-> (seed + i * i) % 4])

\* JAXRandomSampler.__init__(data_source, rng_key); perms notes the
\* permutations the sampler yields
JAXRandomSampler_init(data_source, rng_key) ==
    [data_source |-> data_source, rng_key |-> rng_key, perms |-> <<>>]

\* Mutant: the permutation is drawn from the program's global key.
sampler_iter_global(sampler, key) ==
    [sampler EXCEPT
        !.perms = Append(sampler.perms,
                         Permutation(Split(key, 1), Arange(Len(sampler.data_source))))]

\* list(iter(sampler)) while the program's global key is key: the sampler
\* after the call
sampler_iter(sampler, key) ==
    LET it == JAXRandomSampler_iter(sampler.rng_key, Len(sampler.data_source))
    IN [sampler EXCEPT !.rng_key = it.rng_key,
                       !.perms = Append(sampler.perms, it.indices)]

InitTwinVars ==
    /\ \E n \in 0..MaxTwinLen, k \in 1..2, seed_a, seed_b \in 0..1 :
          /\ sampler_a = JAXRandomSampler_init(DataSource(n, seed_a),
                                               Split(KeyAfter(PRNGKey0, k), 1))
          /\ sampler_b = JAXRandomSampler_init(DataSource(n, seed_b),
                                               Split(KeyAfter(PRNGKey0, k), 1))
          /\ global_key = KeyAfter(PRNGKey0, k)

InitTwin == IdleLoop /\ IdlePmap /\ IdlePure /\ InitTwinVars /\ IdleBn /\ IdlePLoop

\* iter() on the first sampler
TwinIterA ==
    /\ sampler_a # <<>>
    /\ Len(sampler_a.perms) < MaxTwinIters
    /\ sampler_a' = sampler_iter(sampler_a, global_key)
    /\ UNCHANGED <<sampler_b, global_key>>
    /\ UNCHANGED <<loopVars, pmapVars, pureVars, bnVars, plVars>>

\* iter() on the second sampler
TwinIterB ==
    /\ sampler_b # <<>>
    /\ Len(sampler_b.perms) < MaxTwinIters
    /\ sampler_b' = sampler_iter(sampler_b, global_key)
    /\ UNCHANGED <<sampler_a, global_key>>
    /\ UNCHANGED <<loopVars, pmapVars, pureVars, bnVars, plVars>>

\* key, subkey = jax.random.split(key) anywhere else in the program
TwinOther ==
    /\ global_key # <<>>
    /\ Len(global_key) < Len(PRNGKey0) + 2 + MaxTwinOther
    /\ global_key' = Split(global_key, 0)
    /\ UNCHANGED <<sampler_a, sampler_b>>
    /\ UNCHANGED <<loopVars, pmapVars, pureVars, bnVars, plVars>>

NextTwin == TwinIterA \/ TwinIterB \/ TwinOther

SpecTwin == InitTwin /\ [][NextTwin]_vars

\* ================= the single-device dropout / batch-norm notebook (SpecBn)
MaxBnTrain == 3      \* largest training set of this notebook

\* key after the cells that split it for init_key, drop_key and loader_key
BnKey0 == KeyAfter(PRNGKey0, 4)

\* key, loader_key = jax.random.split(key), the last of these cells
BnLoaderKey == Split(KeyAfter(PRNGKey0, 3), 1)

\* state.apply_fn({"params", "batch_stats"}, x, train=train, rngs={"dropout":
\* dropout_key}): the argmax of the logits row by row, and batch_stats as the
\* call leaves them.  With train the dropout masks come from dropout_key and
\* batch norm takes the statistics of x and updates its running averages;
\* without, dropout is off and the running averages are read only.
bn_apply_fn(st, x, train, dropout_key) ==
    [y_pred |-> AsTuple([i \in 1..Len(x.v) |->
                   (PredictBN(st, x.v[i])
                      + (IF train THEN KeyBits(dropout_key) ELSE 0)) % NumClasses]),
     batch_stats |-> IF train THEN LocalBatchStats(st, x) ELSE st.batch_stats]

\* Mutant: apply_model runs the network with train=True.
bn_apply_model_train(st, x) ==
    LET out == bn_apply_fn(st, x, TRUE, <<>>)
    IN [y_pred |-> NdArray(out.y_pred),
        state |-> [st EXCEPT !.batch_stats = out.batch_stats]]

\* apply_model(state, x): jnp.argmax(logits, -1) with train=False, and the
\* state with its variables as the call leaves them
bn_apply_model(st, x) ==
    LET out == bn_apply_fn(st, x, FALSE, <<>>)
    IN [y_pred |-> NdArray(out.y_pred),
        state |-> [st EXCEPT !.batch_stats = out.batch_stats]]

\* The loop of eval_model over the index batches of one pass, from the sums
\* tot on: total_num += len(x), total_acc += jnp.sum(y_pred == y)
RECURSIVE BnEvalBatches(_, _, _)
BnEvalBatches(st, batches, tot) ==
    IF batches = <<>>
    THEN [state |-> st, total_acc |-> tot.total_acc, total_num |-> tot.total_num]
    ELSE LET xy == Fetch(Head(batches))
             r == bn_apply_model(st, xy.v[1])
         IN BnEvalBatches(r.state, Tail(batches),
                [total_acc |-> tot.total_acc + CountEqual(r.y_pred, xy.v[2]),
                 total_num |-> tot.total_num + Len(xy.v[1].v)])

\* eval_model(state, loader): total_acc / total_num as the pair of both, the
\* loader and the state as the pass leaves them, the key the pass drew from
bn_eval_model(st, loader) ==
    LET it == DataLoader_iter(loader)
        tot == BnEvalBatches(st, it.batches, [total_acc |-> 0, total_num |-> 0])
    IN [total_acc |-> tot.total_acc,
        total_num |-> tot.total_num,
        raised |-> tot.total_num = 0,
        state |-> tot.state,
        current_rng |-> it.current_rng,
        loader |-> it.loader]

\* train_step(state, x, y, dropout_key): the new state (the loss is not
\* modelled); batch_stats are those the forward pass returns as mutable
bn_train_step(st, x, y, dropout_key) ==
    LET out == bn_apply_fn(st, x, TRUE, dropout_key)
        grads == LocalGrads(st, x, y, dropout_key)
    IN p_apply_gradients(st, grads, out.batch_stats)

\* Mutant: the key itself is handed on as the subkey.
SplitKey_pass(key) == [key |-> Split(key, 0), subkey |-> key]

\* key, subkey = jax.random.split(key)
SplitKey(key) == [key |-> Split(key, 0), subkey |-> Split(key, 1)]

NoBnHistory ==
    [steps |-> 0,                  \* training steps made
     passes |-> 0,                 \* evaluation passes made
     since_step |-> 0,             \* evaluation passes made since the last step
     trained |-> CustomTrainStateCreate,   \* the state the last step returned
     last |-> <<>>,                \* the state, batch and key of the last step
     keys |-> <<BnKey0>>,          \* every value `key` was bound to
     dropout_keys |-> <<>>,        \* the dropout key of every step
     random_keys |-> {}]           \* the keys handed to random operations

InitBnVars ==
    /\ \E n \in 0..MaxBnTrain, m \in 1..MaxEval, b \in 1..MaxBatch :
          /\ bn_train_loader = NumpyLoader(n, BnLoaderKey, b, TRUE, TRUE)
          /\ bn_eval_loader = NumpyLoader(m, <<>>, b, FALSE, FALSE)
    /\ bn_state = CustomTrainStateCreate
    /\ bn_key = BnKey0
    /\ bn_pc = "for_epoch"
    /\ bn_epoch = 0
    /\ bn_idx = 0
    /\ bn_iter = <<>>
    /\ bn_hist = NoBnHistory

InitBn == IdleLoop /\ IdlePmap /\ IdlePure /\ IdleTwin /\ InitBnVars /\ IdlePLoop

\* for epoch in range(5): enumerate(train_loader), or the loop is over
BnForEpoch ==
    /\ bn_pc = "for_epoch"
    /\ IF bn_epoch < NumEpochs
       THEN LET it == DataLoader_iter(bn_train_loader)
            IN /\ bn_train_loader' = it.loader
               /\ bn_iter' = it.batches
               /\ bn_hist' = [bn_hist EXCEPT
                                 !.random_keys = @ \cup Range(it.current_rng)]
               /\ bn_idx' = 0
               /\ bn_pc' = "for_batch"
       ELSE /\ bn_pc' = "done"
            /\ UNCHANGED <<bn_train_loader, bn_iter, bn_hist, bn_idx>>
    /\ UNCHANGED <<bn_eval_loader, bn_state, bn_key, bn_epoch>>
    /\ UNCHANGED <<loopVars, pmapVars, pureVars, twinVars, plVars>>

\* the next batch: key, dropout_key = jax.random.split(key);
\* state, loss = jit_train_step(state, x, y, dropout_key); if idx % 100 == 0
BnTrainBatch ==
    /\ bn_pc = "for_batch"
    /\ bn_iter # <<>>
    /\ LET xy == Fetch(Head(bn_iter))
           k == SplitKey(bn_key)
           new == bn_train_step(bn_state, xy.v[1], xy.v[2], k.subkey)
       IN /\ bn_key' = k.key
          /\ bn_state' = new
          /\ bn_hist' = [bn_hist EXCEPT
                            !.steps = @ + 1,
                            !.since_step = 0,
                            !.trained = new,
                            !.last = [state |-> bn_state, x |-> xy.v[1],
                                      y |-> xy.v[2], dropout_key |-> k.subkey],
                            !.keys = Append(@, k.key),
                            !.dropout_keys = Append(@, k.subkey),
                            !.random_keys = @ \cup {k.subkey}]
    /\ bn_iter' = Tail(bn_iter)
    /\ IF IsEvalStep(bn_idx)
       THEN bn_pc' = "eval_train" /\ bn_idx' = bn_idx
       ELSE bn_pc' = "for_batch" /\ bn_idx' = bn_idx + 1
    /\ UNCHANGED <<bn_train_loader, bn_eval_loader, bn_epoch>>
    /\ UNCHANGED <<loopVars, pmapVars, pureVars, twinVars, plVars>>

\* the iterator of the epoch is exhausted
BnEndEpoch ==
    /\ bn_pc = "for_batch"
    /\ bn_iter = <<>>
    /\ bn_epoch' = bn_epoch + 1
    /\ bn_pc' = "for_epoch"
    /\ UNCHANGED <<bn_train_loader, bn_eval_loader, bn_state, bn_key, bn_idx,
                   bn_iter, bn_hist>>
    /\ UNCHANGED <<loopVars, pmapVars, pureVars, twinVars, plVars>>

\* train_acc = eval_model(state, train_loader)
BnEvalTrain ==
    /\ bn_pc = "eval_train"
    /\ LET r == bn_eval_model(bn_state, bn_train_loader)
       IN /\ bn_train_loader' = r.loader
          /\ bn_state' = r.state
          /\ bn_hist' = [bn_hist EXCEPT
                            !.passes = @ + 1,
                            !.since_step = @ + 1,
                            !.random_keys = @ \cup Range(r.current_rng)]
          /\ bn_pc' = IF r.raised THEN "raised" ELSE "eval_test"
    /\ UNCHANGED <<bn_eval_loader, bn_key, bn_epoch, bn_idx, bn_iter>>
    /\ UNCHANGED <<loopVars, pmapVars, pureVars, twinVars, plVars>>

\* eval_acc = eval_model(state, eval_loader); print(...)
BnEvalTest ==
    /\ bn_pc = "eval_test"
    /\ LET r == bn_eval_model(bn_state, bn_eval_loader)
       IN /\ bn_eval_loader' = r.loader
          /\ bn_state' = r.state
          /\ bn_hist' = [bn_hist EXCEPT
                            !.passes = @ + 1,
                            !.since_step = @ + 1,
                            !.random_keys = @ \cup Range(r.current_rng)]
          /\ IF r.raised
             THEN bn_pc' = "raised" /\ bn_idx' = bn_idx
             ELSE bn_pc' = "for_batch" /\ bn_idx' = bn_idx + 1
    /\ UNCHANGED <<bn_train_loader, bn_key, bn_epoch, bn_iter>>
    /\ UNCHANGED <<loopVars, pmapVars, pureVars, twinVars, plVars>>

NextBn == BnForEpoch \/ BnTrainBatch \/ BnEndEpoch \/ BnEvalTrain \/ BnEvalTest

SpecBn == InitBn /\ [][NextBn]_vars

\* =============== the training loop of the multi-device notebook (SpecPLoop)
MaxPTrain == 4       \* largest training set of this notebook

\* key after the cells that split it for init_key, drop_key and loader_key
PKey0 == KeyAfter(PRNGKey0, 3)

\* key, loader_key = jax.random.split(key)
PLoaderKey == Split(KeyAfter(PRNGKey0, 2), 1)

\* key, dropout_key = jax.random.split(key)
\* dropout_key = jax.random.split(drop_key, jax.local_device_count()):
\* the second assignment replaces the subkey of the first
DeviceDropoutKeys(subkey, drop_key, D) ==
    AsTuple([d \in 1..D |-> Split(drop_key, d - 1)])

\* The array objects of a state: device_put_replicated and every
\* p_train_step return new ones.
NewBuf(buf) == buf + 1

\* p_train_step(state, xs, ys, dropout_key) with donate_argnums=(0,): the
\* state returned, in new arrays, and the arrays donated
p_train_step_donate(st, xs, ys, keys) ==
    [state |-> [buf |-> NewBuf(st.buf),
                replicas |-> p_train_step(st.replicas, xs, ys, keys).state],
     donated |-> st.buf]

\* Mutant: the returned state is dropped, `state` stays bound to the argument.
Rebind_keep(old, returned) == old

\* state, loss = ...: the name `state` is bound to the returned state
Rebind(old, returned) == returned

NoPLHistory ==
    [steps |-> 0,                  \* training steps made
     passes |-> 0,                 \* evaluation passes made
     single |-> FALSE,             \* the single-replica evaluation was made
     donated |-> {},               \* the arrays donated so far
     read_donated |-> FALSE,       \* a call was handed donated arrays
     subkeys |-> <<>>,             \* the subkey split from `key` at every step
     step_keys |-> <<>>]           \* the per-device dropout keys of every step

InitPLoopVars ==
    /\ \E D \in 1..MaxDevices, b \in 1..MaxPerDevice, n \in 0..MaxPTrain,
          m \in 1..MaxEval :
          /\ pl_devices = D
          /\ pl_train_loader = NumpyLoader(n, PLoaderKey, b * D, TRUE, TRUE)
          /\ pl_eval_loader = NumpyLoader(m, <<>>, b * D, FALSE, FALSE)
    /\ pl_state = [buf |-> 0,
                   replicas |-> device_put_replicated(CustomTrainStateCreate,
                                                      pl_devices)]
    /\ pl_key = PKey0
    /\ pl_pc = "for_epoch"
    /\ pl_epoch = 0
    /\ pl_idx = 0
    /\ pl_iter = <<>>
    /\ pl_hist = NoPLHistory

InitPLoop == IdleLoop /\ IdlePmap /\ IdlePure /\ IdleTwin /\ IdleBn /\ InitPLoopVars

\* pl_hist after a call that was handed the arrays of `state`
NoteRead(h) == [h EXCEPT !.read_donated = @ \/ pl_state.buf \in h.donated]

\* for epoch in range(5): enumerate(train_loader), or the loop is over
PLForEpoch ==
    /\ pl_pc = "for_epoch"
    /\ IF pl_epoch < NumEpochs
       THEN LET it == DataLoader_iter(pl_train_loader)
            IN /\ pl_train_loader' = it.loader
               /\ pl_iter' = it.batches
               /\ pl_idx' = 0
               /\ pl_pc' = "for_batch"
       ELSE /\ pl_pc' = "done"
            /\ UNCHANGED <<pl_train_loader, pl_iter, pl_idx>>
    /\ UNCHANGED <<pl_devices, pl_eval_loader, pl_state, pl_key, pl_epoch, pl_hist>>
    /\ UNCHANGED <<loopVars, pmapVars, pureVars, twinVars, bnVars>>

\* the next batch, reshaped to one shard per device; the two assignments of
\* dropout_key; state, loss = p_train_step(state, xs, ys, dropout_key);
\* if idx % 100 == 0
PLTrainBatch ==
    /\ pl_pc = "for_batch"
    /\ pl_iter # <<>>
    /\ LET xy == Fetch(Head(pl_iter))
           xs == Reshape(xy.v[1], pl_devices)
           ys == Reshape(xy.v[2], pl_devices)
           k == SplitKey(pl_key)
           keys == DeviceDropoutKeys(k.subkey, DropKey, pl_devices)
           r == p_train_step_donate(pl_state, xs.shards, ys.shards, keys)
       IN IF xs.raised
          THEN /\ pl_pc' = "raised"
               /\ UNCHANGED <<pl_state, pl_key, pl_hist, pl_idx>>
          ELSE /\ pl_key' = k.key
               /\ pl_state' = Rebind(pl_state, r.state)
               /\ pl_hist' = [NoteRead(pl_hist) EXCEPT
                                 !.steps = @ + 1,
                                 !.donated = @ \cup {r.donated},
                                 !.subkeys = Append(@, k.subkey),
                                 !.step_keys = Append(@, keys)]
               /\ IF IsEvalStep(pl_idx)
                  THEN pl_pc' = "eval_train" /\ pl_idx' = pl_idx
                  ELSE pl_pc' = "for_batch" /\ pl_idx' = pl_idx + 1
    /\ pl_iter' = Tail(pl_iter)
    /\ UNCHANGED <<pl_devices, pl_train_loader, pl_eval_loader, pl_epoch>>
    /\ UNCHANGED <<loopVars, pmapVars, pureVars, twinVars, bnVars>>

\* the iterator of the epoch is exhausted
PLEndEpoch ==
    /\ pl_pc = "for_batch"
    /\ pl_iter = <<>>
    /\ pl_epoch' = pl_epoch + 1
    /\ pl_pc' = "for_epoch"
    /\ UNCHANGED <<pl_devices, pl_train_loader, pl_eval_loader, pl_state, pl_key,
                   pl_idx, pl_iter, pl_hist>>
    /\ UNCHANGED <<loopVars, pmapVars, pureVars, twinVars, bnVars>>

\* train_acc = eval_model(state, train_loader)
PLEvalTrain ==
    /\ pl_pc = "eval_train"
    /\ LET r == p_eval_model(pl_state.replicas, pl_train_loader, pl_devices)
       IN pl_pc' = IF r.raised THEN "raised" ELSE "eval_test"
    /\ pl_train_loader' = DataLoader_iter(pl_train_loader).loader
    /\ pl_hist' = [NoteRead(pl_hist) EXCEPT !.passes = @ + 1]
    /\ UNCHANGED <<pl_devices, pl_eval_loader, pl_state, pl_key, pl_epoch, pl_idx,
                   pl_iter>>
    /\ UNCHANGED <<loopVars, pmapVars, pureVars, twinVars, bnVars>>

\* eval_acc = eval_model(state, eval_loader); print(...)
PLEvalTest ==
    /\ pl_pc = "eval_test"
    /\ LET r == p_eval_model(pl_state.replicas, pl_eval_loader, pl_devices)
       IN IF r.raised
          THEN pl_pc' = "raised" /\ pl_idx' = pl_idx
          ELSE pl_pc' = "for_batch" /\ pl_idx' = pl_idx + 1
    /\ pl_hist' = [NoteRead(pl_hist) EXCEPT !.passes = @ + 1]
    /\ UNCHANGED <<pl_devices, pl_train_loader, pl_eval_loader, pl_state, pl_key,
                   pl_epoch, pl_iter>>
    /\ UNCHANGED <<loopVars, pmapVars, pureVars, twinVars, bnVars>>

\* after the loop:
\* eval_model_single(jax.tree_util.tree_map(lambda x: x[0], state), eval_loader)
PLSingle ==
    /\ pl_pc = "done"
    /\ pl_pc' = IF eval_model_single(pl_state.replicas[1], pl_eval_loader).raised
                THEN "raised" ELSE "single_done"
    /\ pl_hist' = [NoteRead(pl_hist) EXCEPT !.single = TRUE]
    /\ UNCHANGED <<pl_devices, pl_train_loader, pl_eval_loader, pl_state, pl_key,
                   pl_epoch, pl_idx, pl_iter>>
    /\ UNCHANGED <<loopVars, pmapVars, pureVars, twinVars, bnVars>>

NextPLoop ==
    PLForEpoch \/ PLTrainBatch \/ PLEndEpoch \/ PLEvalTrain \/ PLEvalTest \/ PLSingle

SpecPLoop == InitPLoop /\ [][NextPLoop]_vars

\* ============================================================== properties
\* ----------------------------------------------------------------- C1
\* s holds each of 0 .. n-1 exactly once: it has n entries and every index
\* is among them.
IsPermutation(s, n) ==
    /\ Len(s) = n
    /\ Range(s) = 0..(n - 1)

\* C1: for a data source of length n >= 0, the indices every call of
\* JAXRandomSampler.__iter__ hands out are a permutation of 0 .. n-1, and
\* __len__ returns n.
C1_IterYieldsPermutation ==
    /\ JAXRandomSampler_len(train_loader.n) = train_loader.n
    /\ history.iter_keys # <<>> => IsPermutation(history.last_perm, train_loader.n)

\* C1 witness: a pass over a large data source that is really shuffled.
C1_Witness ==
    /\ history.iter_keys # <<>>
    /\ train_loader.n >= LargeTrain
    /\ history.last_perm # Arange(train_loader.n)

\* ----------------------------------------------------------------- C2
\* C2: the k-th call of __iter__ draws from the second half of the split of
\* the key the first k-1 calls left, stores the first half back, and uses a
\* generator key no earlier call used.
C2_FreshKeyPerIter ==
    LET keys == history.iter_keys
    IN /\ train_loader.rng_key = KeyAfter(LoaderKey, Len(keys))
       /\ \A k \in 1..Len(keys) : keys[k] = Split(KeyAfter(LoaderKey, k - 1), 1)
       /\ \A j, k \in 1..Len(keys) : j # k => keys[j] # keys[k]

\* C2 witness: the sampler was iterated by two epochs and by evaluations.
C2_Witness ==
    /\ Len(history.iter_keys) >= 4
    /\ epoch >= 1
    /\ train_acc.idx >= 0

\* ----------------------------------------------------------------- C4
\* C4: an evaluation (training-set accuracy, then eval-set accuracy, then the
\* report) runs for exactly the idx with idx % 100 = 0, after the update for
\* batch idx and before the update for batch idx + 1, so an epoch of m
\* batches performs ceil(m / 100) evaluations.
C4_EvalEveryHundred ==
    /\ pc \in {"eval_train", "eval_test", "print"} =>
          /\ idx % EvalEvery = 0
          /\ history.updates = idx + 1
    /\ pc = "eval_test" =>
          /\ train_acc.epoch = epoch /\ train_acc.idx = idx
          /\ train_acc.step = state.step
    /\ pc = "print" =>
          /\ train_acc.epoch = epoch /\ train_acc.idx = idx
          /\ train_acc.step = state.step
          /\ eval_acc.epoch = epoch /\ eval_acc.idx = idx
          /\ eval_acc.step = state.step
    /\ pc = "for_batch" =>
          /\ history.updates = idx
          /\ history.evals = {j \in 0..(idx - 1) : j % EvalEvery = 0}
          /\ idx > 0 /\ (idx - 1) % EvalEvery = 0 =>
                /\ printed.epoch = epoch /\ printed.idx = idx - 1
                /\ printed.train_acc = train_acc /\ printed.eval_acc = eval_acc
    /\ \A e \in 1..Len(history.epoch_evals) :
          history.epoch_evals[e] = CeilDiv(history.epoch_updates[e], EvalEvery)

\* C4 witness: the third evaluation of the last epoch is being printed.
C4_Witness ==
    /\ pc = "print"
    /\ epoch = NumEpochs - 1
    /\ idx = 2 * EvalEvery

\* ----------------------------------------------------------------- C5
\* What C5 says of every state of the loop.
C5_Updates ==
    LET n == train_loader.n
        B == train_loader.batch_size
    IN /\ pc \in {"for_epoch", "for_batch", "eval_train", "eval_test", "print", "done"}
       /\ epoch <= NumEpochs
       /\ Len(history.epoch_updates) = epoch
       /\ \A e \in 1..Len(history.epoch_updates) : history.epoch_updates[e] = n \div B
       /\ history.updates > 0 => Len(history.batch) = B
       /\ \A i \in DOMAIN history.used : history.used[i] <= 1
       /\ pc = "done" => epoch = NumEpochs /\ state.step = NumEpochs * (n \div B)

\* The steps the loop still has to take, at most: the epochs left, the
\* batches the epoch's iterator still holds and the rest of the evaluation.
C5_Measure ==
    LET perEpoch == 4 * train_loader.n + 3
        left == (NumEpochs - epoch) * perEpoch
    IN CASE pc = "for_epoch" -> left + 1
         [] pc = "for_batch" -> left - perEpoch + 2 + 4 * Len(train_iter)
         [] pc = "eval_train" -> left - perEpoch + 5 + 4 * Len(train_iter)
         [] pc = "eval_test" -> left - perEpoch + 4 + 4 * Len(train_iter)
         [] pc = "print" -> left - perEpoch + 3 + 4 * Len(train_iter)
         [] OTHER -> 0

\* C5: the training loop terminates after exactly 5 epochs (every step brings
\* the end nearer, and the loop stops nowhere but at its end); each epoch
\* applies exactly floor(n / B) updates, one per full batch of B examples,
\* and within an epoch every training index is used by at most one update.
C5_FiveEpochsOfFullBatches ==
    /\ [](C5_Updates /\ C5_Measure >= 0 /\ (C5_Measure = 0 <=> pc = "done"))
    /\ [][C5_Measure' < C5_Measure]_vars

\* C5 witness: the loop is over for a large training set whose size is not a
\* multiple of the batch size.
C5_Witness ==
    /\ pc = "done"
    /\ train_loader.n >= LargeTrain
    /\ train_loader.n % train_loader.batch_size # 0
    /\ state.step = NumEpochs * (train_loader.n \div train_loader.batch_size)

\* ----------------------------------------------------------------- C8
\* The training examples the state classifies correctly.
CorrectTrain(st, n) ==
    Cardinality({i \in 0..(n - 1) :
                    Predict(st.params, MNIST(i).v[1].v) = MNIST(i).v[2].v})

\* C8: the 'Training set acc' of eval_model(state, train_loader) is the
\* number of correctly classified training examples over the number of
\* training examples: the pass counts each of the n examples exactly once,
\* and the result lies in [0, 1].
C8_TrainAccOverWholeSet ==
    pc = "eval_test" =>
       /\ train_acc.total_num = train_loader.n
       /\ train_acc.seen = 0..(train_loader.n - 1)
       /\ train_acc.total_acc = CorrectTrain(state, train_loader.n)
       /\ 0 <= train_acc.total_acc /\ train_acc.total_acc <= train_acc.total_num

\* ----------------------------------------------------------------- C3
\* C3: the replicas that were equal before p_train_step are equal after it,
\* whatever the shards and the dropout keys of the devices are: from
\* device_put_replicated on, every device holds the same params, optimizer
\* state, step counter and batch_stats.
C3_ReplicasStayEqual ==
    \A d \in 1..Len(replicas) : replicas[d] = replicas[1]

\* C3 witness: the steps were made, the last one with different shards,
\* different dropout keys and different gradients on two devices.
C3_Witness ==
    /\ devices >= 2
    /\ replicas[1].step = MaxSteps
    /\ last_step.differ

\* ----------------------------------------------------------------- C9
\* C9: for the same training state and the same loader, eval_model_single on
\* replica 0 returns the accuracy eval_model returns on all devices.
C9_SingleReplicaSameAccuracy ==
    (all_acc.made /\ single_acc.made) =>
       /\ ~all_acc.raised /\ ~single_acc.raised
       /\ all_acc.total_acc = single_acc.total_acc
       /\ all_acc.total_num = single_acc.total_num

\* ----------------------------------------------------------------- C6
\* Every array of a collated value is a numpy array, inside lists only.
RECURSIVE NumpyOnly(_)
NumpyOnly(value) ==
    \/ value.t = "nd"
    \/ /\ value.t = "list"
       /\ \A k \in 1..Len(value.v) : NumpyOnly(value.v[k])

\* C6: numpy_collate on a batch of B samples (image, label) returns the list
\* [images, labels]: images the B image arrays stacked in sample order,
\* labels the array of the B labels in the same order; a tuple or list field
\* is collated in the same way, and the result holds numpy arrays only.
C6_CollateTransposes ==
    call.fn = "numpy_collate" =>
       LET B == Len(call.batch)
           images == call.result.v[1]
           second == call.result.v[2]
       IN /\ call.result.t = "list" /\ Len(call.result.v) = 2
          /\ images.t = "nd" /\ Len(images.v) = B
          /\ \A i \in 1..B : images.v[i] = call.batch[i].v[1].v
          /\ NumpyOnly(call.result)
          /\ call.shape = "flat" =>
                /\ second.t = "nd" /\ Len(second.v) = B
                /\ \A i \in 1..B : second.v[i] = call.batch[i].v[2].v
          /\ call.shape = "nested" =>
                /\ second.t = "list" /\ Len(second.v) = 2
                /\ \A k \in 1..2 :
                      /\ Len(second.v[k].v) = B
                      /\ \A i \in 1..B :
                            second.v[k].v[i] = call.batch[i].v[2].v[k].v

\* C6 witness: a batch of three different samples with a list field.
C6_Witness ==
    /\ call.fn = "numpy_collate"
    /\ call.shape = "nested"
    /\ Len(call.batch) = 3
    /\ call.batch[1] # call.batch[2]
    /\ call.batch[2] # call.batch[3]
    /\ call.batch[1] # call.batch[3]

\* ----------------------------------------------------------------- C7
\* C7: loss normalises the logits of each example into log-probabilities per
\* example: for every example of the batch the exponentials of its
\* log-probabilities sum to 1.
C7_LossNormalisesPerExample ==
    call.fn = "loss" =>
       \A e \in 1..Len(call.result.exp_preds) :
          LET row == call.result.exp_preds[e]
          IN SumSeq(AsTuple([c \in 1..Len(row) |-> row[c].num])) = row[1].den

\* ----------------------------------------------------------------- C10
\* The subkey a layer was initialised from: the key its two draws split.
LayerKey(pair) == SubSeq(pair[1].key, 1, Len(pair[1].key) - 1)

\* C10: init_network_params(sizes, key) for L >= 2 sizes returns exactly L-1
\* (w, b) pairs; pair i has w of shape (sizes[i+1], sizes[i]) and b of shape
\* (sizes[i+1],), and each layer is initialised from a different subkey of
\* key.
C10_InitNetworkParams ==
    call.fn = "init_network_params" =>
       LET L == Len(call.sizes)
           params == call.result
       IN /\ Len(params) = L - 1
          /\ \A i \in 1..Len(params) :
                /\ Len(params[i]) = 2
                /\ params[i][1].shape = <<call.sizes[i + 1], call.sizes[i]>>
                /\ params[i][2].shape = <<call.sizes[i + 1]>>
                /\ SubSeq(params[i][2].key, 1, Len(params[i][2].key) - 1)
                     = LayerKey(params[i])
                /\ params[i][1].key # params[i][2].key
                /\ SubSeq(LayerKey(params[i]), 1, Len(LayerKey(params[i])) - 1)
                     = call.key
          /\ \A i, j \in 1..Len(params) :
                i # j => LayerKey(params[i]) # LayerKey(params[j])

\* C10 witness: the three layers of the notebook's shape, of different sizes.
C10_Witness ==
    /\ call.fn = "init_network_params"
    /\ Len(call.sizes) = 4
    /\ Len(call.result) = 3
    /\ call.sizes[1] # call.sizes[2]
    /\ call.sizes[3] # call.sizes[4]

\* ----------------------------------------------------------------- C14
\* The lists of seqs, one after the other.
RECURSIVE Concat(_)
Concat(seqs) == IF seqs = <<>> THEN <<>> ELSE Head(seqs) \o Concat(Tail(seqs))

\* C14: the eval loader (shuffle=False, drop_last=False) has no
\* JAXRandomSampler and no key; a pass over it yields the indices 0..m-1 in
\* increasing order, each once, in ceil(m/B) batches of at most B indices,
\* and leaves the loader as it was; the eval accuracy just computed counts
\* every one of the m test examples once.  The train loader (shuffle=True)
\* has the JAXRandomSampler.
C14_EvalLoaderSequential ==
    pc = "print" =>
       LET it == DataLoader_iter(eval_loader)
           m == eval_loader.n
           B == eval_loader.batch_size
       IN /\ eval_loader.sampler = "SequentialSampler"
          /\ eval_loader.rng_key = <<>>
          /\ train_loader.sampler = "JAXRandomSampler"
          /\ it.current_rng = <<>>
          /\ it.loader = eval_loader
          /\ Len(it.indices) = m
          /\ \A i \in 1..m : it.indices[i] = i - 1
          /\ Concat(it.batches) = it.indices
          /\ Len(it.batches) = CeilDiv(m, B)
          /\ \A k \in 1..Len(it.batches) :
                Len(it.batches[k]) >= 1 /\ Len(it.batches[k]) <= B
          /\ eval_acc.total_num = m
          /\ eval_acc.seen = 0..(m - 1)
          /\ eval_acc.total_acc <= m

\* C14 witness: an evaluation over more than one batch of the eval loader,
\* after the training state has changed.
C14_Witness ==
    /\ pc = "print"
    /\ eval_loader.n > eval_loader.batch_size
    /\ eval_acc.total_num = eval_loader.n
    /\ state.step >= 2

\* ----------------------------------------------------------------- C15
\* C15: model_forward applied to a batch of shape (B, 784), B >= 2, raises;
\* batched_forward on the same batch returns B rows of 10 logits; and
\* model_forward on one image of shape (784,) returns its 10 logits.
C15_ModelForwardOneExample ==
    /\ (call.fn = "model_forward" /\ Len(call.x_shape) = 2 /\ call.x_shape[1] >= 2)
          => call.result.raised
    /\ call.fn = "batched_forward"
          => ~call.result.raised /\ call.result.shape = <<call.x_shape[1], 10>>
    /\ (call.fn = "model_forward" /\ Len(call.x_shape) = 1)
          => ~call.result.raised /\ call.result.shape = <<10>>

\* C15 witness: model_forward on a batch of 784 images, for which the first
\* jnp.dot is defined, with the notebook's layer sizes.
C15_Witness ==
    /\ call.fn = "model_forward"
    /\ call.x_shape = <<784, 784>>
    /\ call.sizes = <<784, 512, 512, 10>>
    /\ call.result.raised

\* ----------------------------------------------------------------- C16
\* C16: one_hot(x, k) has len(x) rows of k entries, each 0 or 1; row i has
\* its 1 in column x[i] and nowhere else, so a row holds exactly one 1 when
\* 0 <= x[i] < k (and none otherwise).
C16_OneHot ==
    call.fn = "one_hot" =>
       /\ Len(call.result) = Len(call.x)
       /\ \A i \in 1..Len(call.x) :
             /\ Len(call.result[i]) = call.k
             /\ \A c \in 0..(call.k - 1) :
                   call.result[i][c + 1] = (IF c = call.x[i] THEN 1 ELSE 0)
             /\ (0 <= call.x[i] /\ call.x[i] < call.k)
                   => SumSeq(call.result[i]) = 1

\* C16 witness: three labels, the first and the last class among them.
C16_Witness ==
    /\ call.fn = "one_hot"
    /\ call.k = 3
    /\ call.x = <<0, 2, 1>>
    /\ call.result = <<(<<1, 0, 0>>), (<<0, 0, 1>>), (<<0, 1, 0>>)>>

\* ----------------------------------------------------------------- C19
\* C19: two JAXRandomSamplers created with the same rng_key over data sources
\* of the same length yield the same permutation on their k-th __iter__, for
\* every k both have made, whatever the data are, however the calls are
\* interleaved and whatever the rest of the program does with its key.
C19_ShufflingDeterministic ==
    sampler_a # <<>> =>
       \A k \in 1..Min(Len(sampler_a.perms), Len(sampler_b.perms)) :
          sampler_a.perms[k] = sampler_b.perms[k]

\* C19 witness: both samplers have made all their calls over different data,
\* the program has split its key meanwhile, and the permutations of one
\* sampler differ from call to call.
C19_Witness ==
    /\ sampler_a # <<>>
    /\ Len(sampler_a.perms) = MaxTwinIters
    /\ Len(sampler_b.perms) = MaxTwinIters
    /\ Len(sampler_a.data_source) = MaxTwinLen
    /\ sampler_a.data_source # sampler_b.data_source
    /\ Len(global_key) = Len(PRNGKey0) + 2 + MaxTwinOther
    /\ sampler_a.perms[1] # sampler_a.perms[2]
    /\ sampler_a.perms[2] # sampler_a.perms[3]

\* ----------------------------------------------------------------- C11
\* C11: evaluation is read-only.  Whatever number of evaluation passes
\* (eval_model over the train loader, over the eval loader) has been made
\* since the last training step, the training state is the one that step
\* returned - the one created, before the first step: params, optimizer
\* state, step counter and batch_stats are unchanged.
C11_EvalReadOnly ==
    bn_pc # "idle" =>
       /\ bn_state = bn_hist.trained
       /\ bn_state.step = bn_hist.trained.step
       /\ bn_state.batch_stats = bn_hist.trained.batch_stats

\* C11 witness: the two passes of an evaluation were made on a state that
\* training has changed, in a later epoch; the passes read batches whose
\* statistics differ from the running averages.
C11_Witness ==
    /\ bn_pc = "for_batch"
    /\ bn_epoch >= 1
    /\ bn_hist.since_step = 2
    /\ bn_hist.passes >= 4
    /\ bn_state.params # 0
    /\ bn_train_loader.n >= 2
    /\ LocalBatchStats(bn_state, NdArray(<<(<<1>>)>>)) # bn_state.batch_stats

\* ----------------------------------------------------------------- C12
\* C12: the state after a training step holds the params and optimizer state
\* moved by the gradients of that step's batch and dropout key, the
\* batch_stats of that batch, and the step counter of the state before plus
\* one; after k steps the step counter is k.
C12_StepCounter ==
    bn_pc # "idle" =>
       /\ bn_state.step = bn_hist.steps
       /\ bn_hist.steps > 0 =>
             LET l == bn_hist.last
                 g == LocalGrads(l.state, l.x, l.y, l.dropout_key)
             IN /\ bn_hist.trained.step = l.state.step + 1
                /\ bn_hist.trained.params = (l.state.params + g) % ParamMod
                /\ bn_hist.trained.opt_state = (l.state.opt_state * 2 + g) % ParamMod
                /\ bn_hist.trained.batch_stats = LocalBatchStats(l.state, l.x)

\* C12 witness: the loop is over after five epochs of three steps, the last
\* of which changed params and batch_stats.
C12_Witness ==
    /\ bn_pc = "done"
    /\ bn_hist.steps = NumEpochs * MaxBnTrain
    /\ bn_state.step = NumEpochs * MaxBnTrain
    /\ bn_hist.last.state.params # bn_state.params
    /\ bn_hist.last.state.batch_stats # bn_state.batch_stats

\* ----------------------------------------------------------------- C18
\* C18: step i splits the global key: its first half is the new global key,
\* its second half the dropout key of the step.  No two steps have the same
\* dropout key, and no value of the global key is handed to a random
\* operation (dropout, or the permutation of the sampler).
C18_DropoutKeyPerStep ==
    bn_pc # "idle" =>
       /\ Len(bn_hist.dropout_keys) = bn_hist.steps
       /\ Len(bn_hist.keys) = bn_hist.steps + 1
       /\ bn_key = bn_hist.keys[bn_hist.steps + 1]
       /\ \A i \in 1..bn_hist.steps :
             /\ bn_hist.keys[i + 1] = Split(bn_hist.keys[i], 0)
             /\ bn_hist.dropout_keys[i] = Split(bn_hist.keys[i], 1)
             /\ bn_hist.dropout_keys[i] \in bn_hist.random_keys
       /\ \A i, j \in 1..bn_hist.steps :
             i # j => bn_hist.dropout_keys[i] # bn_hist.dropout_keys[j]
       /\ \A i \in 1..Len(bn_hist.keys) : bn_hist.keys[i] \notin bn_hist.random_keys

\* C18 witness: steps in two epochs, with passes of the sampler between them.
C18_Witness ==
    /\ bn_epoch >= 1
    /\ bn_hist.steps >= 4
    /\ bn_hist.passes >= 2
    /\ Cardinality(bn_hist.random_keys) > bn_hist.steps

\* ----------------------------------------------------------------- C13
\* C13: no call is handed arrays that an earlier p_train_step was given and
\* donated: at every point of the loop, and at the single-replica evaluation
\* after it, the name `state` is bound to arrays that have not been donated.
C13_DonatedStateNeverRead ==
    pl_pc # "idle" =>
       /\ ~pl_hist.read_donated
       /\ pl_state.buf \notin pl_hist.donated

\* C13 witness: the loop is over after steps and evaluation passes, several
\* states were donated, and the single-replica evaluation was made.
C13_Witness ==
    /\ pl_pc = "single_done"
    /\ pl_hist.single
    /\ pl_devices >= 2
    /\ Cardinality(pl_hist.donated) >= 2 * NumEpochs
    /\ pl_hist.passes >= 2 * NumEpochs

\* ----------------------------------------------------------------- C17
\* C17: the per-device dropout keys of a training step are the split of the
\* subkey split from the global key at that step, and no two training steps
\* receive the same per-device dropout keys.
C17_DropoutKeysPerStep ==
    pl_pc # "idle" =>
       /\ \A i \in 1..pl_hist.steps :
             pl_hist.step_keys[i]
               = AsTuple([d \in 1..pl_devices |-> Split(pl_hist.subkeys[i], d - 1)])
       /\ \A i, j \in 1..pl_hist.steps :
             i # j => pl_hist.step_keys[i] # pl_hist.step_keys[j]

====
